---- MODULE Spec2Model ----
(***************************************************************************)
(* Model of factory/credentialClass.py: the credential store               *)
(* (safe_update, update_credential_file, compress_credential), the         *)
(* frontend authenticator (get_key_obj, validate_frontend), the global     *)
(* credential processor (process_global), the credential-set validator     *)
(* (check_security_credentials), the credential model (create_cred,        *)
(* SubmitCredentials) and the credential generator (generate_credential).  *)
(*                                                                         *)
(* Python values are modelled with their type: a bytes object and a str    *)
(* object are records with different tags, so they never compare equal,    *)
(* as in Python 3.  An exception is the field "raised" of a result.        *)
(***************************************************************************)
EXTENDS Naturals, Sequences, FiniteSets, TLC

VARIABLES
    fs,          \* the file system: path -> NoFile or File(content)
    pc,          \* position of the writer inside safe_update ("idle" between calls)
    call,        \* arguments and locals of the safe_update call in progress
    hist,        \* the safe_update calls that ended, oldest first
    obs,         \* what the concurrent reader saw at its latest read
    PubKeyObj,   \* glidein_descript.data["PubKeyObj"]
    classad,     \* the ClassAd of the latest process_global call
    fs0,         \* the file system when that call began
    gpc,         \* position inside process_global ("idle" between calls)
    st,          \* the locals of the process_global call in progress
    result,      \* what the latest call gave its caller, and what it did on the way
    rerun,       \* the latest process_global call repeats the call before it
    now,         \* the wall clock, in seconds
    compressed,  \* the compress_credential calls made, oldest first
    checked,     \* the latest check_security_credentials call and how it ended
    submit,      \* a SubmitCredentials object, the files around it, its latest call
    created,     \* the latest create_cred call and how it ended
    plugins,     \* the module-global cache of imported generator plugins
    generated,   \* the latest generate_credential call and how it ended
    writers      \* two processes, each making one safe_update call

vars == <<fs, pc, call, hist, obs, PubKeyObj, classad, fs0, gpc, st, result, rerun,
          now, compressed, checked, submit, created, plugins, generated, writers>>

storeVars == <<pc, call, hist, obs>>
globalVars == <<PubKeyObj, classad, fs0, gpc, st, result, rerun>>
libVars == <<now, compressed, checked, submit, created, plugins, generated>>

-----------------------------------------------------------------------------
(* Bounds of the model *)

\* number of safe_update calls the writer makes in one behaviour
MaxCalls == 2

-----------------------------------------------------------------------------
(* Python values *)

\* a Python value: its type and, for bytes and str, its characters
Bytes(v) == [t |-> "bytes", v |-> v]
Str(v) == [t |-> "str", v |-> v]
PyNone == [t |-> "NoneType", v |-> <<>>]

\* "x is None" / "x == None"
IsNone(x) == x.t = "NoneType"

\* an entry of the file system: no file, or a regular file and its content
NoFile == [exists |-> FALSE, content |-> <<>>]
File(c) == [exists |-> TRUE, content |-> c]

\* file contents and credential payloads: short ASCII character sequences
Contents == {<<"a">>, <<"b">>}

Usernames == {"u1"}
ClientNames == {"c1"}
CredIds == {"id1", "id2"}

-----------------------------------------------------------------------------
(* Paths *)

\* glideFactoryLib.factoryConfig.get_client_proxies_dir(username)
get_client_proxies_dir(username) == <<"proxies", username>>

\* glideFactoryLib.escapeParam(client_id)
escapeParam(client_id) == <<"esc", client_id>>

\* os.path.join(proxy_dir, f"credential_{request_clientname}_{escapeParam(client_id)}")
Fname(username, request_clientname, client_id) ==
    <<get_client_proxies_dir(username), "credential", request_clientname, escapeParam(client_id)>>

\* "%s_compressed" % fname
FnameCompressed(fname) == fname \o <<"_compressed">>

\* fname + ".new"
NewName(fname) == fname \o <<".new">>

\* fname + ".old"
OldName(fname) == fname \o <<".old">>

RawPaths == {Fname(u, c, i) : u \in Usernames, c \in ClientNames, i \in CredIds}
BasePaths == RawPaths \cup {FnameCompressed(f) : f \in RawPaths}
Paths == BasePaths \cup {NewName(f) : f \in BasePaths} \cup {OldName(f) : f \in BasePaths}

EmptyFs == [p \in Paths |-> NoFile]

-----------------------------------------------------------------------------
(* File-system primitives used by safe_update *)

\* os.path.isfile(fname)
isfile(f, fname) == f[fname].exists

\* os.open(path, os.O_CREAT | os.O_WRONLY, 0o600): creates an empty file when
\* there is none; without O_TRUNC an existing file keeps its content.
os_open(f, path) == IF ~f[path].exists THEN [f EXCEPT ![path] = File(<<>>)] ELSE f

\* "with <os.open(...)> as file: file.write(credential_data)": os.open has run
\* and returned an int file descriptor; an int has no __enter__/__exit__, so
\* the with statement raises TypeError before its body: nothing is written.
with_fd(f) == [fs |-> f, raised |-> "TypeError"]

\* "with open(fname) as fl: old_data = fl.read()": a text-mode read gives a str
open_read(f, fname) == Str(f[fname].content)

\* "try: os.remove(fname + '.old') except OSError: pass"; ok is whether the
\* operating system lets the removal happen
remove_old(f, fname, ok) ==
    IF ok /\ f[OldName(fname)].exists THEN [f EXCEPT ![OldName(fname)] = NoFile] ELSE f

\* a plausible slip: the update is opened in place, truncating the file that
\* readers are reading
open_in_place(f, fname) == [f EXCEPT ![fname] = File(<<>>)]

\* line 412, os.open(fname + ".new", ...): the update is prepared beside the
\* file, never in it
open_new(f, fname) == os_open(f, NewName(fname))

\* line 394, os.open(fname, ...): a new file is created under its final name
create_file(f, fname) == os_open(f, fname)

\* "credential_data == old_data"
same_content(credential_data, old_data) == credential_data = old_data

\* safe_update(fname, credential_data) run from start to end with nothing in
\* between.  shutil.copy2 and os.rename (lines 416-422) come after the with
\* statement of line 412, which always raises: they are never executed.
safe_update(f, fname, credential_data, rmOk) ==
    IF ~isfile(f, fname)
    THEN with_fd(create_file(f, fname))
    ELSE LET old_data == open_read(f, fname) IN
         IF same_content(credential_data, old_data)
         THEN [fs |-> f, raised |-> "None"]
         ELSE with_fd(open_new(remove_old(f, fname, rmOk), fname))

-----------------------------------------------------------------------------
(* safe_update step by step, with a concurrent reader *)

\* the paths the writer is called on: the two files of one credential
StorePaths == {Fname("u1", "c1", "id1"), FnameCompressed(Fname("u1", "c1", "id1"))}

\* the values safe_update is called with
StoreData == {Bytes(c) : c \in Contents} \cup {Str(<<"a">>)}

NoCall == [fname |-> <<>>, data |-> PyNone, old_data |-> PyNone, before |-> EmptyFs]
NoDuring == [active |-> FALSE, before |-> NoFile, data |-> PyNone, state |-> "none"]
NoObs == [path |-> <<>>, seen |-> NoFile, during |-> NoDuring]

\* the call ends: it returned, raised, or was interrupted
EndCall(outcome, after) ==
    /\ hist' = Append(hist, [fname |-> call.fname, data |-> call.data,
                             before |-> call.before, after |-> after,
                             outcome |-> outcome])
    /\ pc' = "idle"
    /\ call' = NoCall

su_call(fname, credential_data) ==
    /\ pc = "idle"
    /\ Len(hist) < MaxCalls
    /\ pc' = "isfile"
    /\ call' = [fname |-> fname, data |-> credential_data, old_data |-> PyNone, before |-> fs]
    /\ obs' = NoObs
    /\ UNCHANGED <<fs, hist>>

su_isfile ==
    /\ pc = "isfile"
    /\ pc' = IF isfile(fs, call.fname) THEN "read_old" ELSE "create"
    /\ UNCHANGED <<fs, call, hist, obs>>

su_create ==
    /\ pc = "create"
    /\ fs' = create_file(fs, call.fname)
    /\ pc' = "with"
    /\ UNCHANGED <<call, hist, obs>>

\* entering the with statement of line 394 or of line 412
su_with ==
    /\ pc = "with"
    /\ LET r == with_fd(fs) IN
         /\ fs' = r.fs
         /\ EndCall(r.raised, r.fs)
    /\ UNCHANGED obs

su_read_old ==
    /\ pc = "read_old"
    /\ call' = [call EXCEPT !.old_data = open_read(fs, call.fname)]
    /\ pc' = "compare"
    /\ UNCHANGED <<fs, hist, obs>>

su_compare ==
    /\ pc = "compare"
    /\ IF same_content(call.data, call.old_data)
       THEN EndCall("None", fs)
       ELSE pc' = "remove_old" /\ UNCHANGED <<call, hist>>
    /\ UNCHANGED <<fs, obs>>

su_remove_old(ok) ==
    /\ pc = "remove_old"
    /\ fs' = remove_old(fs, call.fname, ok)
    /\ pc' = "open_new"
    /\ UNCHANGED <<call, hist, obs>>

su_open_new ==
    /\ pc = "open_new"
    /\ fs' = open_new(fs, call.fname)
    /\ pc' = "with"
    /\ UNCHANGED <<call, hist, obs>>

\* the process is killed in the middle of a call
su_interrupt ==
    /\ pc \notin {"idle"}
    /\ EndCall("interrupted", fs)
    /\ UNCHANGED <<fs, obs>>

\* the safe_update call on path that is in progress, or else the latest
\* that ended (returned, raised or was interrupted)
LatestCallOn(path) ==
    IF pc # "idle" /\ call.fname = path
    THEN [active |-> TRUE, before |-> call.before[path], data |-> call.data,
          state |-> pc]
    ELSE IF Len(hist) > 0 /\ hist[Len(hist)].fname = path
    THEN [active |-> TRUE, before |-> hist[Len(hist)].before[path],
          data |-> hist[Len(hist)].data, state |-> hist[Len(hist)].outcome]
    ELSE NoDuring

\* a concurrent reader opens and reads the path being updated
reader_read(path) ==
    /\ LatestCallOn(path).active
    /\ obs' = [path |-> path, seen |-> fs[path], during |-> LatestCallOn(path)]
    /\ UNCHANGED <<fs, pc, call, hist>>

\* the credential directory before the writer starts: empty, or holding a
\* file written earlier
StoreInitFs ==
    {EmptyFs} \cup
    {[EmptyFs EXCEPT ![p] = File(<<"a">>)] : p \in StorePaths} \cup
    {[EmptyFs EXCEPT ![p] = File(<<"a">>), ![OldName(p)] = File(<<"b">>)] : p \in StorePaths}

-----------------------------------------------------------------------------
(* Two safe_update calls at the same time, one process each *)

Writers == {"w1", "w2"}

\* a process that has not called safe_update yet
NoWriter ==
    [pc |-> "idle", fname |-> <<>>, data |-> PyNone, old_data |-> PyNone,
     before |-> NoFile, overlapped |-> FALSE, outcome |-> "none"]

TwoIdle == writers = [w \in Writers |-> NoWriter]

\* the call of w is under way
Running(w) == writers[w].pc \notin {"idle", "done"}

\* the call of w ends: it returned or raised
tw_end(w, outcome) ==
    writers' = [writers EXCEPT ![w].pc = "done", ![w].outcome = outcome]

tw_goto(w, label) == writers' = [writers EXCEPT ![w].pc = label]

tw_call(w, fname, credential_data) ==
    /\ writers[w].pc = "idle"
    /\ writers' = [writers EXCEPT ![w] =
                      [pc |-> "isfile", fname |-> fname, data |-> credential_data,
                       old_data |-> PyNone, before |-> fs[fname],
                       overlapped |-> \E v \in Writers \ {w} : Running(v),
                       outcome |-> "none"]]
    /\ UNCHANGED fs

tw_isfile(w) ==
    /\ writers[w].pc = "isfile"
    /\ tw_goto(w, IF isfile(fs, writers[w].fname) THEN "read_old" ELSE "create")
    /\ UNCHANGED fs

tw_create(w) ==
    /\ writers[w].pc = "create"
    /\ fs' = create_file(fs, writers[w].fname)
    /\ tw_goto(w, "with")

\* a plausible slip: the with statement works, the data is written, and the
\* file is put under its final name
tw_with_written(w) ==
    /\ writers[w].pc = "with"
    /\ fs' = [fs EXCEPT ![writers[w].fname] = File(writers[w].data.v),
                        ![NewName(writers[w].fname)] = NoFile]
    /\ tw_end(w, "None")

\* entering the with statement of line 394 or of line 412
tw_with(w) ==
    /\ writers[w].pc = "with"
    /\ LET r == with_fd(fs) IN
         /\ fs' = r.fs
         /\ tw_end(w, r.raised)

tw_read_old(w) ==
    /\ writers[w].pc = "read_old"
    /\ writers' = [writers EXCEPT ![w].old_data = open_read(fs, writers[w].fname),
                                  ![w].pc = "compare"]
    /\ UNCHANGED fs

tw_compare(w) ==
    /\ writers[w].pc = "compare"
    /\ IF same_content(writers[w].data, writers[w].old_data)
       THEN tw_end(w, "None")
       ELSE tw_goto(w, "remove_old")
    /\ UNCHANGED fs

tw_remove_old(w, ok) ==
    /\ writers[w].pc = "remove_old"
    /\ fs' = remove_old(fs, writers[w].fname, ok)
    /\ tw_goto(w, "open_new")

tw_open_new(w) ==
    /\ writers[w].pc = "open_new"
    /\ fs' = open_new(fs, writers[w].fname)
    /\ tw_goto(w, "with")

\* the credential directory before the two calls: each of the two paths is
\* absent, empty (left by an earlier creation), or holds an earlier credential
TwoInitFs ==
    {[p \in Paths |-> IF p \in StorePaths THEN g[p] ELSE NoFile] :
        g \in [StorePaths -> {NoFile, File(<<>>), File(<<"a">>)}]}

-----------------------------------------------------------------------------
(* Capabilities the module is given: keys and the frontend policy *)

\* symmetric keys; "k1" is the key that ReqEncKeyCode carries
Enc(k, plain) == [key |-> k, plain |-> plain]

\* pub_key_obj.extract_sym_key(code): the symmetric key, or an exception when
\* the code cannot be decrypted; a None pub_key_obj has no such method
extract_sym_key(pub_key_obj, code) ==
    IF pub_key_obj = "None" THEN [raised |-> "AttributeError", key |-> "None"]
    ELSE IF code = "bad" THEN [raised |-> "Exception", key |-> "None"]
    ELSE [raised |-> "None", key |-> code]

\* sym_key_obj.decrypt_hex(hex): the plain bytes, or an exception when the
\* text was not encrypted with this key
decrypt_hex(sym_key_obj, hex) ==
    IF hex.key = sym_key_obj
    THEN [raised |-> "None", v |-> Bytes(hex.plain)]
    ELSE [raised |-> "Exception", v |-> PyNone]

\* bytes.decode("utf-8")
decode(b) == Str(b.v)

\* the frontend description: security name -> expected identity, and
\* (security name, security class) -> local username
FrontendDescript ==
    [identity |-> [sn1 |-> "fe1", sn2 |-> "fe2"],
     username |-> [sn1 |-> [sc1 |-> "u1"], sn2 |-> [sc2 |-> "u1"]]]

\* frontend_descript.get_identity(frontend_sec_name)
get_identity(frontend_descript, frontend_sec_name) ==
    IF frontend_sec_name.v \in DOMAIN frontend_descript.identity
    THEN Str(frontend_descript.identity[frontend_sec_name.v])
    ELSE PyNone

\* frontend_descript.get_username(frontend_sec_name, security_class)
get_username(frontend_descript, frontend_sec_name, security_class) ==
    IF /\ frontend_sec_name.v \in DOMAIN frontend_descript.username
       /\ security_class.v \in DOMAIN frontend_descript.username[frontend_sec_name.v]
    THEN Str(frontend_descript.username[frontend_sec_name.v][security_class.v])
    ELSE PyNone

-----------------------------------------------------------------------------
(* The frontend authenticator *)

NoKey == "None"

Raise(kind, msg, trace) ==
    [raised |-> kind, msg |-> msg, sym_key_obj |-> NoKey, frontend_sec_name |-> PyNone,
     trace |-> trace]

\* get_key_obj(pub_key_obj, classad)
get_key_obj(pub_key_obj, ad) ==
    IF "ReqEncKeyCode" \in DOMAIN ad
    THEN LET r == extract_sym_key(pub_key_obj, ad.ReqEncKeyCode) IN
         IF r.raised = "None"
         THEN [raised |-> "None", msg |-> "", sym_key_obj |-> r.key,
               frontend_sec_name |-> PyNone, trace |-> <<"extract_sym_key">>]
         ELSE Raise("CredentialError", "Symmetric key extraction failed.",
                    <<"extract_sym_key">>)
    ELSE Raise("CredentialError", "Classad does not contain a key.  We cannot decrypt.", <<>>)

\* "try: sym_key_obj.decrypt_hex(classad[field]).decode('utf-8') except: ..."
\* a missing field (KeyError) and a failed decryption end in the same except
decrypt_field(sym_key_obj, ad, field) ==
    IF field \notin DOMAIN ad THEN [raised |-> "KeyError", v |-> PyNone, tried |-> FALSE]
    ELSE LET d == decrypt_hex(sym_key_obj, ad[field]) IN
         IF d.raised # "None" THEN [raised |-> d.raised, v |-> PyNone, tried |-> TRUE]
         ELSE [raised |-> "None", v |-> decode(d.v), tried |-> TRUE]

\* a plausible slip: the claimed identity is decrypted but never compared
identity_unchecked(enc_identity, authenticated_identity) == FALSE

\* the identity comparison of line 507
identity_differs(enc_identity, authenticated_identity) ==
    enc_identity # authenticated_identity

\* the policy comparison of line 525
not_expected(authenticated_identity, expected_identity) ==
    authenticated_identity # expected_identity

\* validate_frontend(classad, frontend_descript, pub_key_obj)
validate_frontend(ad, frontend_descript, pub_key_obj) ==
    LET k == get_key_obj(pub_key_obj, ad)
        authenticated_identity == ad.AuthenticatedIdentity
        id == decrypt_field(k.sym_key_obj, ad, "ReqEncIdentity")
        t1 == k.trace \o (IF id.tried THEN <<"decrypt_hex">> ELSE <<>>)
        sn == decrypt_field(k.sym_key_obj, ad, "GlideinEncParamSecurityName")
        t2 == t1 \o (IF sn.tried THEN <<"decrypt_hex">> ELSE <<>>)
        expected_identity == get_identity(frontend_descript, sn.v)
        t3 == t2 \o <<"get_identity">>
    IN  IF k.raised # "None" THEN k
        ELSE IF id.raised # "None"
        THEN Raise("CredentialError", "Cannot decrypt ReqEncIdentity.", t1)
        ELSE IF identity_differs(id.v, authenticated_identity)
        THEN Raise("CredentialError", "Client provided invalid ReqEncIdentity", t1)
        ELSE IF sn.raised # "None"
        THEN Raise("CredentialError", "Cannot decrypt GlideinEncParamSecurityName.", t2)
        ELSE IF IsNone(expected_identity)
        THEN Raise("CredentialError", "This frontend is not authorized by the factory.", t3)
        ELSE IF not_expected(authenticated_identity, expected_identity)
        THEN Raise("CredentialError",
                   "This frontend Authenticated Identity, does not match the expected identity",
                   t3)
        ELSE [raised |-> "None", msg |-> "", sym_key_obj |-> k.sym_key_obj,
              frontend_sec_name |-> sn.v, trace |-> t3]

-----------------------------------------------------------------------------
(* The credential store *)

\* compress_credential(credential_data): GzipFile writes the gzip header, which
\* is bytes, into a StringIO, which takes only str: TypeError for every input
compress_credential(credential_data) == [raised |-> "TypeError", v |-> PyNone]

\* b"glidein_credentials=%s" % compressed_credential
glidein_credentials(compressed_credential) ==
    Bytes(<<"glidein_credentials=">> \o compressed_credential.v)

\* update_credential_file(username, client_id, credential_data, request_clientname)
update_credential_file(f, username, client_id, credential_data, request_clientname, rmOk) ==
    LET fname == Fname(username, request_clientname, client_id)
        fname_compressed == FnameCompressed(fname)
        u1 == safe_update(f, fname, credential_data, rmOk)
        compressed_credential == compress_credential(credential_data)
        u2 == safe_update(u1.fs, fname_compressed,
                          glidein_credentials(compressed_credential.v), rmOk)
    IN  IF u1.raised # "None" THEN [fs |-> u1.fs, raised |-> u1.raised, paths |-> <<>>]
        ELSE IF compressed_credential.raised # "None"
        THEN [fs |-> u1.fs, raised |-> compressed_credential.raised, paths |-> <<>>]
        ELSE IF u2.raised # "None" THEN [fs |-> u2.fs, raised |-> u2.raised, paths |-> <<>>]
        ELSE [fs |-> u2.fs, raised |-> "None", paths |-> <<fname, fname_compressed>>]

-----------------------------------------------------------------------------
(* The global credential processor: the body of its loop *)

\* one turn of the loop of lines 548-569, for the key
\* "GlideinEncParamSecurityClass" + cred_id; f is the file system and s the
\* locals of process_global before the turn
process_key(f, s, ad, frontend_descript, cred_id, rmOk) ==
    LET has_data == cred_id \in DOMAIN ad.GlideinEncParam
        cred_data == decrypt_hex(s.sym_key_obj, ad.GlideinEncParam[cred_id])
        sc == decrypt_hex(s.sym_key_obj, ad.GlideinEncParamSecurityClass[cred_id])
        security_class == decode(sc.v)
        username == get_username(frontend_descript, s.frontend_sec_name, security_class)
        upd == update_credential_file(f, username.v, cred_id, cred_data.v,
                                      ad.ClientName, rmOk)
    IN  IF ~has_data THEN [fs |-> f, st |-> [s EXCEPT !.raised = "KeyError"]]
        ELSE IF cred_data.raised # "None"
        THEN [fs |-> f,
              st |-> [s EXCEPT !.raised = cred_data.raised,
                               !.trace = @ \o <<"decrypt_hex">>]]
        ELSE IF sc.raised # "None"
        THEN [fs |-> f,
              st |-> [s EXCEPT !.raised = sc.raised,
                               !.trace = @ \o <<"decrypt_hex", "decrypt_hex">>]]
        ELSE IF IsNone(username)
        THEN [fs |-> f,
              st |-> [s EXCEPT !.skipped = Append(@, cred_id),
                               !.trace = @ \o <<"decrypt_hex", "decrypt_hex",
                                                "get_username">>]]
        ELSE [fs |-> upd.fs,
              st |-> [s EXCEPT !.raised = upd.raised,
                               !.updated = @ \o upd.paths,
                               !.trace = @ \o <<"decrypt_hex", "decrypt_hex", "get_username",
                                                "update_credential_file">>]]

\* a plausible slip: a bare "raise" in the except clause, which lets the
\* exception of the try body through as it is
reraise_same(s) == [raised |-> s.raised, msg |-> s.msg]

\* "except: ... raise CredentialError(error_str)" of lines 570-574: whatever
\* was raised in the try body is logged and replaced
reraise(s) ==
    [raised |-> "CredentialError",
     msg |-> "Error occurred processing the globals classads."]

-----------------------------------------------------------------------------
(* The ClassAds the processor is given *)

Restrict(fn, S) == [x \in S |-> fn[x]]

\* the orders in which the GlideinEncParamSecurityClass<ID> keys of a ClassAd
\* can come: the sequences of distinct credential ids
RECURSIVE IdSeqs(_)
IdSeqs(S) ==
    {<<>>} \cup UNION {{<<i>> \o q : q \in IdSeqs(S \ {i})} : i \in S}

DistinctIdSeqs == IdSeqs(CredIds)

Ids(q) == {q[i] : i \in 1..Len(q)}

\* what one embedded credential can look like: mapped to a user, with no
\* mapping, with a security class or data that cannot be decrypted, or
\* without its GlideinEncParam<ID> companion
Shapes == {"mapped", "unmapped", "bad_class", "bad_data", "no_data"}

ShapeClass(sh) ==
    IF sh = "unmapped" THEN Enc("k1", "scX")
    ELSE IF sh = "bad_class" THEN Enc("k2", "sc1")
    ELSE Enc("k1", "sc1")

ShapeData(sh) == IF sh = "bad_data" THEN Enc("k2", <<"a">>) ELSE Enc("k1", <<"a">>)

HeaderKeys == {"ClientName", "AuthenticatedIdentity", "GlideinEncParamSecurityClass",
               "GlideinEncParam", "mkeys"}
OptionalKeys == {"ReqEncKeyCode", "ReqEncIdentity", "GlideinEncParamSecurityName"}

\* a ClassAd with every field present
FullAd(ai, code, ei, sn, q, classes, params) ==
    [ClientName |-> "c1",
     AuthenticatedIdentity |-> Str(ai),
     ReqEncKeyCode |-> code,
     ReqEncIdentity |-> ei,
     GlideinEncParamSecurityName |-> sn,
     GlideinEncParamSecurityClass |-> classes,
     GlideinEncParam |-> params,
     mkeys |-> q]

\* the ClassAd of an honest frontend "fe1" carrying the ids of q
GoodAd(q, classes, params) ==
    FullAd("fe1", "k1", Enc("k1", "fe1"), Enc("k1", "sn1"), q, classes, params)

\* ClassAds with every combination of header fields, each carrying one
\* mapped credential
HeaderAds ==
    {FullAd(ai, code, ei, sn, <<"id1">>,
            [i \in {"id1"} |-> Enc("k1", "sc1")], [i \in {"id1"} |-> Enc("k1", <<"a">>)]) :
        ai \in {"fe1", "fe2"},
        code \in {"k1", "bad"},
        ei \in {Enc("k1", "fe1"), Enc("k1", "fe2"), Enc("k2", "fe1")},
        sn \in {Enc("k1", "sn1"), Enc("k1", "sn2"), Enc("k1", "snX"), Enc("k2", "sn1")}}

\* ClassAds lacking one of the fields the authenticator reads
PartialAds ==
    {Restrict(GoodAd(<<"id1">>, [i \in {"id1"} |-> Enc("k1", "sc1")],
                     [i \in {"id1"} |-> Enc("k1", <<"a">>)]),
              HeaderKeys \cup (OptionalKeys \ {k})) : k \in OptionalKeys}

\* authenticated ClassAds with every combination of embedded credentials
EmbeddedAds ==
    UNION {{GoodAd(q, [i \in Ids(q) |-> ShapeClass(sh[i])],
                   [i \in {j \in Ids(q) : sh[j] # "no_data"} |-> ShapeData(sh[i])]) :
               sh \in [Ids(q) -> Shapes]} : q \in DistinctIdSeqs}

ClassAds == HeaderAds \cup PartialAds \cup EmbeddedAds

-----------------------------------------------------------------------------
(* compress_credential called over time *)

\* the latest second of the wall clock
MaxClock == 2

\* number of compress_credential calls in one behaviour
MaxCompress == 3

\* the byte strings compress_credential is called with
CompressInputs == {Bytes(c) : c \in Contents \cup {<<>>}}

\* a second passes
tick ==
    /\ now < MaxClock
    /\ now' = now + 1
    /\ UNCHANGED compressed

\* compress_credential(credential_data) is called at the time now.  The
\* TypeError comes from the first write of the gzip header, before the header's
\* time stamp is taken: the clock has no part in the outcome.
cc_call(credential_data) ==
    /\ Len(compressed) < MaxCompress
    /\ compressed' = Append(compressed,
                            [at |-> now, data |-> credential_data,
                             out |-> compress_credential(credential_data)])
    /\ UNCHANGED now

CompressIdle == now = 0 /\ compressed = <<>>

-----------------------------------------------------------------------------
(* The credential-set validator *)

\* line 35
SUPPORTED_AUTH_METHODS ==
    {"grid_proxy", "cert_pair", "key_pair", "auth_file", "username_password",
     "idtoken", "scitoken"}

\* An auth_method string is the sequence of its pieces: the sign "+" and the
\* words between the signs.  auth_method.split("+") gives the list of entries,
\* each entry the sequence of the words between two signs (empty when two
\* signs touch, or for the empty string).
RECURSIVE split(_)
split(auth_method) ==
    IF auth_method = <<>> THEN << <<>> >>
    ELSE LET rest == split(Tail(auth_method)) IN
         IF Head(auth_method) = "+" THEN << <<>> >> \o rest
         ELSE << <<Head(auth_method)>> \o Head(rest) >> \o Tail(rest)

\* '"name" in auth_method_list': an entry is the name when it is that one word
in_list(name, auth_method_list) ==
    \E i \in 1..Len(auth_method_list) : auth_method_list[i] = <<name>>

\* a plausible slip: every declared method is taken as supported
supported_always(auth_method_list) == TRUE

\* line 594: set(auth_method_list) & set(SUPPORTED_AUTH_METHODS)
supported(auth_method_list) ==
    {auth_method_list[i] : i \in 1..Len(auth_method_list)}
        \cap {<<m>> : m \in SUPPORTED_AUTH_METHODS} # {}

\* lines 602-614
relevant_keys ==
    {"SubmitProxy", "GlideinProxy", "Username", "Password", "PublicCert", "PrivateCert",
     "PublicKey", "PrivateKey", "VMId", "VMType", "AuthFile"}

\* a plausible slip: the fields outside the allow-list are not looked at
invalid_keys_none(valid_keys) == {}

\* relevant_keys.difference(valid_keys)
invalid_keys(valid_keys) == relevant_keys \ valid_keys

\* a plausible slip: "(A or B) and C" where the code has "A or (B and C)"
scitoken_rule_and(auth_method_list, params, scitoken_passthru) ==
    /\ in_list("scitoken", auth_method_list) \/ "frontend_scitoken" \in params
    /\ scitoken_passthru

\* line 616: "scitoken" in auth_method_list or "frontend_scitoken" in params
\* and scitoken_passthru; "and" binds tighter than "or"
scitoken_rule(auth_method_list, params, scitoken_passthru) ==
    \/ in_list("scitoken", auth_method_list)
    \/ "frontend_scitoken" \in params /\ scitoken_passthru

\* a plausible slip: the proxy is asked for whatever the passthrough flag says
grid_proxy_checked_always(scitoken_passthru) == TRUE

\* line 622: the whole grid_proxy check stands under "if not scitoken_passthru"
grid_proxy_checked(scitoken_passthru) == ~scitoken_passthru

\* a plausible slip: the glidein proxy is not asked for
glidein_proxy_missing_never(params, scitoken_passthru) == FALSE

\* line 642
glidein_proxy_missing(params, scitoken_passthru) ==
    "GlideinProxy" \notin params /\ ~scitoken_passthru

Accepted == [raised |-> "None", msg |-> ""]
CredentialError(msg) == [raised |-> "CredentialError", msg |-> msg]

\* one arm of the chain of lines 645-712: the required fields, then the
\* fields outside the allow-list
sub_method(params, required, valid_keys, missing) ==
    IF ~(required \subseteq params)
    THEN CredentialError(missing)
    ELSE IF params \cap invalid_keys(valid_keys) # {}
    THEN CredentialError("has credentials not required by the entry")
    ELSE Accepted

\* check_security_credentials(auth_method, params, client_int_name, entry_name,
\* scitoken_passthru); params is the set of keys of the dictionary
check_security_credentials(auth_method, params, scitoken_passthru) ==
    LET auth_method_list == split(auth_method) IN
    IF ~supported(auth_method_list) THEN Accepted
    ELSE IF scitoken_rule(auth_method_list, params, scitoken_passthru) THEN Accepted
    ELSE IF in_list("grid_proxy", auth_method_list)
    THEN IF grid_proxy_checked(scitoken_passthru)
         THEN IF "SubmitProxy" \in params
              THEN IF params \cap invalid_keys({"SubmitProxy"}) # {}
                   THEN CredentialError("has credentials not required by the entry")
                   ELSE Accepted
              ELSE CredentialError("did not provide a proxy as required by the entry")
         ELSE Accepted
    ELSE IF glidein_proxy_missing(params, scitoken_passthru)
    THEN CredentialError("Glidein proxy cannot be found")
    ELSE IF in_list("cert_pair", auth_method_list)
    THEN sub_method(params, {"PublicCert", "PrivateCert"},
                    {"GlideinProxy", "PublicCert", "PrivateCert", "VMId", "VMType"},
                    "did not specify the certificate pair")
    ELSE IF in_list("key_pair", auth_method_list)
    THEN sub_method(params, {"PublicKey", "PrivateKey"},
                    {"GlideinProxy", "PublicKey", "PrivateKey", "VMId", "VMType"},
                    "did not specify the key pair")
    ELSE IF in_list("auth_file", auth_method_list)
    THEN sub_method(params, {"AuthFile"},
                    {"GlideinProxy", "AuthFile", "VMId", "VMType"},
                    "did not specify the auth_file")
    ELSE IF in_list("username_password", auth_method_list)
    THEN sub_method(params, {"Username", "Password"},
                    {"GlideinProxy", "Username", "Password", "VMId", "VMType"},
                    "did not specify the username and password")
    ELSE CredentialError("Inconsistency between SUPPORTED_AUTH_METHODS and check_security_credentials")

\* the declared auth methods the validator is called with
AuthMethods ==
    {<<m>> : m \in SUPPORTED_AUTH_METHODS} \cup
    {<<>>, <<"unknown">>, <<"unknown", "+", "other">>, <<"grid_proxy", "cert_pair">>,
     <<"+">>, <<"grid_proxy", "+", "scitoken">>, <<"scitoken", "+", "cert_pair">>,
     <<"grid_proxy", "+", "cert_pair">>, <<"cert_pair", "+", "grid_proxy">>,
     <<"grid_proxy", "+", "unknown">>, <<"unknown", "+", "cert_pair">>,
     <<"cert_pair", "+", "key_pair">>, <<"key_pair", "+", "auth_file">>,
     <<"username_password", "+", "auth_file">>, <<"idtoken", "+", "key_pair">>,
     <<"idtoken", "+", "unknown">>, <<"auth_file", "+", "+", "idtoken">>}

\* the keys a decrypted parameter dictionary can hold: the credential-relevant
\* ones and the mark of a scitoken, which is not one of them
ParamKeys == relevant_keys \cup {"frontend_scitoken"}
ParamSets == SUBSET ParamKeys

NoChecked ==
    [done |-> FALSE, auth_method |-> <<>>, params |-> {}, scitoken_passthru |-> FALSE,
     out |-> Accepted]

\* check_security_credentials is called, once
csc_call ==
    /\ ~checked.done
    /\ \E auth_method \in AuthMethods, params \in ParamSets, scitoken_passthru \in BOOLEAN :
          checked' = [done |-> TRUE, auth_method |-> auth_method, params |-> params,
                      scitoken_passthru |-> scitoken_passthru,
                      out |-> check_security_credentials(auth_method, params,
                                                         scitoken_passthru)]

ValidatorIdle == checked = NoChecked

-----------------------------------------------------------------------------
(* The credential model: the credential classes and create_cred *)

\* the constructor arguments every credential class takes
CommonFields ==
    {"sec_class", "trust_dom", "vm_id", "vm_type", "pilot_proxy", "creation_script",
     "update_freq"}

\* one credential class: its name, the keyword arguments of __init__ (none
\* has a default), the cred_type __init__ sets and what get_cred_type returns
Class(name, own, tag, type) ==
    [name |-> name, params |-> own \cup CommonFields, cred_type |-> tag,
     get_cred_type |-> type]

\* a plausible slip: auth_file, written as a copy of grid_proxy, keeps the
\* cred_type of the class it was copied from
Credential_subclasses_copied ==
    <<Class("scitoken", {"cred_loc"}, "scitoken", "scitoken"),
      Class("grid_proxy", {"cred_loc"}, "grid_proxy", "grid_proxy"),
      Class("cert_pair", {"cert", "certkey"}, "cert_pair", "cert_pair"),
      Class("key_pair", {"pub_key", "priv_key", "rem_user"}, "key_pair", "key_pair"),
      Class("username_password", {"username", "password"}, "username_password",
            "username_password"),
      Class("auth_file", {"file", "rem_user"}, "grid_proxy", "auth_file")>>

\* Credential.__subclasses__(): the classes of lines 72-202, in the order
\* they are defined
Credential_subclasses ==
    <<Class("scitoken", {"cred_loc"}, "scitoken", "scitoken"),
      Class("grid_proxy", {"cred_loc"}, "grid_proxy", "grid_proxy"),
      Class("cert_pair", {"cert", "certkey"}, "cert_pair", "cert_pair"),
      Class("key_pair", {"pub_key", "priv_key", "rem_user"}, "key_pair", "key_pair"),
      Class("username_password", {"username", "password"}, "username_password",
            "username_password"),
      Class("auth_file", {"file", "rem_user"}, "auth_file", "auth_file")>>

\* the attribute __init__ keeps an argument in; auth_file takes rem_user and
\* keeps it nowhere
attribute(class_name, param) ==
    IF param = "update_freq" THEN {"update_frequency"}
    ELSE IF param = "rem_user" /\ class_name = "auth_file" THEN {}
    ELSE {param}

NoCred == [t |-> "NoneType", class |-> "", cred_type |-> "", get_cred_type |-> "",
           attrs |-> {}]

\* cls(**krx): krx is the set of the keyword names; a missing or an
\* unexpected keyword is a TypeError
construct(cls, krx) ==
    IF krx # cls.params THEN [raised |-> "TypeError", cred |-> NoCred]
    ELSE [raised |-> "None",
          cred |-> [t |-> "Credential", class |-> cls.name, cred_type |-> cls.cred_type,
                    get_cred_type |-> cls.get_cred_type,
                    attrs |-> {"cred_type"} \cup UNION {attribute(cls.name, p) : p \in krx}]]

\* lines 248-250: class_dict, from what each class gives as get_cred_type();
\* of two classes giving the same, the later one stays
class_dict(subclasses) ==
    [k \in {subclasses[i].get_cred_type : i \in 1..Len(subclasses)} |->
        LET last == CHOOSE i \in 1..Len(subclasses) :
                        /\ subclasses[i].get_cred_type = k
                        /\ \A j \in (i + 1)..Len(subclasses) :
                              subclasses[j].get_cred_type # k
        IN  subclasses[last]]

\* create_cred(cred_type, **krx)
create_cred(cred_type, krx) ==
    IF cred_type \notin DOMAIN class_dict(Credential_subclasses)
    THEN [raised |-> "CredentialError", msg |-> "Unknown Credential type", cred |-> NoCred]
    ELSE LET c == construct(class_dict(Credential_subclasses)[cred_type], krx) IN
         IF c.raised = "TypeError"
         THEN [raised |-> "CredentialError", msg |-> "Incorrect parameters for credential",
               cred |-> NoCred]
         ELSE [raised |-> "None", msg |-> "", cred |-> c.cred]

\* the keyword names a caller may pass
FieldNames ==
    CommonFields \cup {"cred_loc", "cert", "certkey", "pub_key", "priv_key", "rem_user",
                       "username", "password", "file", "extra"}

\* the argument sets create_cred is called with: what some class takes, that
\* with one keyword left out, that with one keyword added
KeywordSets ==
    LET takes == {Credential_subclasses[i].params : i \in 1..Len(Credential_subclasses)} IN
    takes \cup {t \ {f} : t \in takes, f \in FieldNames}
          \cup {t \cup {f} : t \in takes, f \in FieldNames}

\* the kinds create_cred is asked for
CredTypes == SUPPORTED_AUTH_METHODS \cup {"unknown", ""}

NoCreated == [done |-> FALSE, cred_type |-> "", krx |-> {}, out |-> create_cred("", {})]

\* create_cred is called, once
cred_call ==
    /\ ~created.done
    /\ \E cred_type \in CredTypes, krx \in KeywordSets :
          created' = [done |-> TRUE, cred_type |-> cred_type, krx |-> krx,
                      out |-> create_cred(cred_type, krx)]

CreateIdle == created = NoCreated

-----------------------------------------------------------------------------
(* The credential model: SubmitCredentials *)

\* number of accessor calls on one SubmitCredentials object
MaxAdds == 2

\* file names and paths are sequences of pieces; "/" separates directories
SafePieces == {"cred1", "cred2", "pre_"}
UnsafePieces == {"/", ";"}

\* glideFactoryLib.is_str_safe(filename)
is_str_safe(filename) == \A i \in 1..Len(filename) : filename[i] \in SafePieces

\* os.path.join(a, b): b alone when a is empty or b starts at the root
path_join(a, b) ==
    IF a = <<>> \/ (b # <<>> /\ Head(b) = "/") THEN b
    ELSE IF a[Len(a)] = "/" THEN a \o b
    ELSE a \o <<"/">> \o b

\* the values a caller stores: strings, and credential objects
GridProxyCred ==
    construct(class_dict(Credential_subclasses)["grid_proxy"], {"cred_loc"} \cup CommonFields).cred

\* isinstance(__v, Credential)
is_credential(v) == v.t = "Credential"

\* Credentials.__setitem__(__k, __v), lines 66-69, on the dictionary d
setitem(d, k, v) ==
    IF ~is_credential(v) THEN [raised |-> "TypeError", d |-> d]
    ELSE [raised |-> "None",
          d |-> [x \in DOMAIN d \cup {k} |-> IF x = k THEN v ELSE d[x]]]

\* what an accessor gives: the object after the call, the value returned
\* ("None" when it raised) and the exception
Gave(o, ret, raised) == [object |-> o, ret |-> ret, raised |-> raised]

\* SubmitCredentials.add_security_credential(cred_type, filename, prefix) on
\* the object o, with the files of disk
add_security_credential(o, disk, cred_type, filename, prefix) ==
    LET cred_fname == path_join(o.cred_dir, prefix \o filename)
        set == setitem(o.security_credentials, cred_type, Str(cred_fname))
    IN  IF ~is_str_safe(filename) THEN Gave(o, "False", "None")
        ELSE IF cred_fname \notin disk THEN Gave(o, "False", "None")
        ELSE IF set.raised # "None" THEN Gave(o, "None", set.raised)
        ELSE Gave([o EXCEPT !.security_credentials = set.d], "True", "None")

\* SubmitCredentials.add_factory_credential(cred_type, absfname)
add_factory_credential(o, disk, cred_type, absfname) ==
    LET set == setitem(o.security_credentials, cred_type, Str(absfname)) IN
    IF absfname \notin disk THEN Gave(o, "False", "None")
    ELSE IF set.raised # "None" THEN Gave(o, "None", set.raised)
    ELSE Gave([o EXCEPT !.security_credentials = set.d], "True", "None")

\* SubmitCredentials.add_identity_credential(cred_type, cred_str)
add_identity_credential(o, cred_type, cred_str) ==
    LET set == setitem(o.identity_credentials, cred_type, cred_str) IN
    IF set.raised # "None" THEN Gave(o, "None", set.raised)
    ELSE Gave([o EXCEPT !.identity_credentials = set.d], "True", "None")

\* SubmitCredentials.__init__(username, security_class), lines 206-212, and
\* the credential directory its owner sets afterwards
NewSubmitCredentials(cred_dir) ==
    [username |-> "u1", security_class |-> "sc1", cred_dir |-> cred_dir,
     security_credentials |-> <<>>, identity_credentials |-> <<>>]

\* the regular files there are
Disk == {<<"cred1">>, <<"dir", "/", "cred1">>, <<"dir", "/", "pre_", "cred2">>,
         <<"/", "abs", "/", "cred1">>}

FileNames == {<<"cred1">>, <<"cred2">>, <<"/", "abs", "/", "cred1">>, <<"cred1", ";">>}
Prefixes == {<<>>, <<"pre_">>}
AbsNames == {<<"/", "abs", "/", "cred1">>, <<"/", "abs", "/", "cred2">>}
SubmitTypes == {"grid_proxy", "key_pair", "scitoken"}
IdentityValues == {Str(<<"id">>), Str(<<>>), GridProxyCred}

NoGave == [fn |-> "", cred_type |-> "", ret |-> "None", raised |-> "None"]

NoSubmit ==
    [object |-> NewSubmitCredentials(<<>>), before |-> NewSubmitCredentials(<<>>),
     calls |-> 0, last |-> NoGave]

\* an accessor of the object was called and gave g
sc_called(fn, cred_type, g) ==
    submit' = [object |-> g.object, before |-> submit.object, calls |-> submit.calls + 1,
               last |-> [fn |-> fn, cred_type |-> cred_type, ret |-> g.ret,
                         raised |-> g.raised]]

sc_add_security(cred_type, filename, prefix) ==
    /\ submit.calls < MaxAdds
    /\ sc_called("add_security_credential", cred_type,
                 add_security_credential(submit.object, Disk, cred_type, filename, prefix))

sc_add_factory(cred_type, absfname) ==
    /\ submit.calls < MaxAdds
    /\ sc_called("add_factory_credential", cred_type,
                 add_factory_credential(submit.object, Disk, cred_type, absfname))

sc_add_identity(cred_type, cred_str) ==
    /\ submit.calls < MaxAdds
    /\ sc_called("add_identity_credential", cred_type,
                 add_identity_credential(submit.object, cred_type, cred_str))

SubmitIdle == submit = NoSubmit

-----------------------------------------------------------------------------
(* The credential generator *)

\* The generator plugins a site can name, and what each does: "token_a" and
\* "token_b" load and give a token, "absent" cannot be found by import_module,
\* "broken" fails while it is imported, "failing" loads and raises ValueError
\* from get_credential, "odd" loads and gives a value that is no pair.
PluginNames == {"token_a", "token_b", "absent", "broken", "failing", "odd"}

\* import_module(generator)
import_module(generator) ==
    IF generator = "absent" THEN "ModuleNotFoundError"
    ELSE IF generator = "broken" THEN "SyntaxError"
    ELSE "None"

\* "stkn, _ = plugins[generator].get_credential(logSupport, group_name, entry,
\* trust_domain)"
get_credential(generator) ==
    IF generator = "failing" THEN [raised |-> "ValueError", stkn |-> PyNone]
    ELSE IF generator = "odd" THEN [raised |-> "TypeError", stkn |-> PyNone]
    ELSE [raised |-> "None", stkn |-> Str(<<generator>>)]

\* the modules that can be in the cache: those that import_module loads
Loadable == {g \in PluginNames : import_module(g) = "None"}

\* A dictionary is written in the configuration as text: the sequence of its
\* "key: value" pairs.  eval(text) gives the dictionary: its keys in the
\* order they first come, each with the value of its last pair.
eval_keys(text) ==
    LET first(i) == \A j \in 1..(i - 1) : text[j][1] # text[i][1]
        F[i \in 0..Len(text)] ==
            IF i = 0 THEN <<>>
            ELSE IF first(i) THEN Append(F[i - 1], text[i][1]) ELSE F[i - 1]
    IN  F[Len(text)]

eval_value(text, key) ==
    LET last == CHOOSE i \in 1..Len(text) :
                    /\ text[i][1] = key
                    /\ \A j \in (i + 1)..Len(text) : text[j][1] # key
    IN  text[last][2]

eval(text) ==
    [keys |-> eval_keys(text),
     map |-> [k \in {text[i][1] : i \in 1..Len(text)} |-> eval_value(text, k)]]

\* dict.get(key): the text, or None; cfg is the set of keys the dictionary has
NoText == [t |-> "NoneType", text |-> <<>>]
Text(x) == [t |-> "str", text |-> x]
data_get(data, key) == IF key \in DOMAIN data THEN Text(data[key]) ELSE NoText

\* "if not x": None and the empty string are false
falsy(x) == x.t = "NoneType" \/ x.text = <<>>

\* "a = element_data.get(key); if not a: a = frontend_data.get(key)"
element_or_frontend(elementDescript, key) ==
    LET a == data_get(elementDescript.element_data, key) IN
    IF falsy(a) THEN data_get(elementDescript.frontend_data, key) ELSE a

\* a plausible slip: the lookup of the trust domain stands inside the try
lookup_guarded(trust_domain_map, cfname) ==
    IF cfname \in DOMAIN trust_domain_map
    THEN [raised |-> "None", v |-> trust_domain_map[cfname]]
    ELSE [raised |-> "None", v |-> ""]

\* line 345, trust_domain_map[cfname]: KeyError when the key is not there
lookup(trust_domain_map, cfname) ==
    IF cfname \in DOMAIN trust_domain_map
    THEN [raised |-> "None", v |-> trust_domain_map[cfname]]
    ELSE [raised |-> "KeyError", v |-> ""]

\* lines 348-361, the try statement for one generator: cache is the plugins
\* dictionary; the result says whether the function returns here
try_generator(cache, generator, glidein_el) ==
    LET imported == IF generator \in cache THEN "None" ELSE import_module(generator)
        cache1 == IF imported = "None" THEN cache \cup {generator} ELSE cache
        got == get_credential(generator)
    IN  IF imported # "None"
        THEN [plugins |-> cache, returns |-> FALSE, stkn |-> PyNone, caught |-> imported]
        ELSE IF "attrs" \notin glidein_el
        THEN [plugins |-> cache1, returns |-> FALSE, stkn |-> PyNone, caught |-> "KeyError"]
        ELSE IF got.raised # "None"
        THEN [plugins |-> cache1, returns |-> FALSE, stkn |-> PyNone, caught |-> got.raised]
        ELSE [plugins |-> cache1, returns |-> TRUE, stkn |-> got.stkn, caught |-> "None"]

\* the loop of lines 344-361 from the key number i on
RECURSIVE generators_loop(_, _, _, _, _, _)
generators_loop(cache, generators_map, trust_domain_map, i, glidein_el, trust_domain) ==
    IF i > Len(generators_map.keys)
    THEN [plugins |-> cache, raised |-> "None", v |-> PyNone]
    ELSE LET cfname == generators_map.keys[i]
             td == lookup(trust_domain_map.map, cfname)
             t == try_generator(cache, generators_map.map[cfname], glidein_el)
         IN  IF td.raised # "None"
             THEN [plugins |-> cache, raised |-> td.raised, v |-> PyNone]
             ELSE IF td.v # trust_domain
             THEN generators_loop(cache, generators_map, trust_domain_map, i + 1,
                                  glidein_el, trust_domain)
             ELSE IF t.returns
             THEN [plugins |-> t.plugins, raised |-> "None", v |-> t.stkn]
             ELSE generators_loop(t.plugins, generators_map, trust_domain_map, i + 1,
                                  glidein_el, trust_domain)

\* generate_credential(elementDescript, glidein_el, group_name, trust_domain)
\* with the plugins dictionary cache
generate_credential(cache, elementDescript, glidein_el, trust_domain) ==
    LET generators == element_or_frontend(elementDescript, "CredentialGenerators")
        trust_domain_data == element_or_frontend(elementDescript, "ProxyTrustDomains")
    IN  IF falsy(trust_domain_data) \/ falsy(generators)
        THEN [plugins |-> cache, raised |-> "None", v |-> PyNone]
        ELSE generators_loop(cache, eval(generators.text), eval(trust_domain_data.text),
                             1, glidein_el, trust_domain)

\* the texts of two keys and a set of values: no pair, one pair, two pairs
Texts(values) ==
    LET pairs == {"c1", "c2"} \X values IN
    {<<>>} \cup {<<p>> : p \in pairs} \cup {<<p, q>> : p \in pairs, q \in pairs}

GeneratorTexts == Texts(PluginNames)
TrustDomainTexts == Texts({"td", "other"})

\* the descriptions of an element: any of the two keys may be missing
ElementData ==
    {[GlideinName |-> <<>>, CredentialGenerators |-> g, ProxyTrustDomains |-> t] :
        g \in GeneratorTexts, t \in TrustDomainTexts}
    \cup {[GlideinName |-> <<>>, CredentialGenerators |-> g] : g \in GeneratorTexts}
    \cup {[GlideinName |-> <<>>, ProxyTrustDomains |-> t] : t \in TrustDomainTexts}
    \cup {[GlideinName |-> <<>>]}

\* the description of the frontend: without the two keys, or with both
FrontendData ==
    {[GlideinName |-> <<>>],
     [GlideinName |-> <<>>, CredentialGenerators |-> << <<"c1", "token_b">> >>,
      ProxyTrustDomains |-> << <<"c1", "td">> >>]}

ElementDescripts ==
    {[element_data |-> e, frontend_data |-> f] : e \in ElementData, f \in FrontendData}

\* the keys of the glidein element
GlideinEls == {{"attrs"}, {}}

NoGenerated ==
    [done |-> FALSE, elementDescript |-> [element_data |-> [GlideinName |-> <<>>],
                                          frontend_data |-> [GlideinName |-> <<>>]],
     glidein_el |-> {}, trust_domain |-> "", before |-> {},
     out |-> [raised |-> "None", v |-> PyNone]]

\* generate_credential is called, once, for the trust domain "td"
gen_call ==
    /\ ~generated.done
    /\ \E elementDescript \in ElementDescripts, glidein_el \in GlideinEls :
          LET r == generate_credential(plugins, elementDescript, glidein_el, "td") IN
            /\ plugins' = r.plugins
            /\ generated' = [done |-> TRUE, elementDescript |-> elementDescript,
                             glidein_el |-> glidein_el, trust_domain |-> "td",
                             before |-> plugins,
                             out |-> [raised |-> r.raised, v |-> r.v]]

GenerateIdle == plugins = {} /\ generated = NoGenerated

\* none of the functions of this part of the module has been called
LibIdle ==
    /\ CompressIdle
    /\ ValidatorIdle
    /\ CreateIdle
    /\ SubmitIdle
    /\ GenerateIdle

-----------------------------------------------------------------------------
(* The processor as a state machine *)

\* the locals of process_global before its first statement
NoSt ==
    [raised |-> "None", msg |-> "", trace |-> <<>>, validated |-> FALSE,
     skipped |-> <<>>, updated |-> <<>>, sym_key_obj |-> NoKey,
     frontend_sec_name |-> Str(""), mkeys |-> <<>>]

NoResult ==
    [raised |-> "None", msg |-> "", trace |-> <<>>, validated |-> FALSE,
     skipped |-> <<>>, updated |-> <<>>, cause |-> "None", cause_msg |-> "",
     ended |-> FALSE]

NoAd == Restrict(GoodAd(<<>>, <<>>, <<>>), HeaderKeys)

\* the credential directories before the first ClassAd: empty, or holding the
\* raw file of an earlier cycle
InitFs ==
    {EmptyFs, [EmptyFs EXCEPT ![Fname("u1", "c1", "id1")] = File(<<"a">>)]}

StoreIdle ==
    /\ pc = "idle"
    /\ call = NoCall
    /\ hist = <<>>
    /\ obs = NoObs

Init ==
    /\ fs \in InitFs
    /\ PubKeyObj \in {"None", "factory_key"}
    /\ classad = NoAd
    /\ fs0 = fs
    /\ gpc = "idle"
    /\ st = NoSt
    /\ result = NoResult
    /\ rerun = FALSE
    /\ StoreIdle
    /\ LibIdle
    /\ TwoIdle

\* what the caller of process_global gets when the call ends with the locals s
\* and the exception or return (raised, msg)
Outcome(s, raised, msg) ==
    [raised |-> raised, msg |-> msg, trace |-> s.trace, validated |-> s.validated,
     skipped |-> s.skipped, updated |-> s.updated, cause |-> s.raised,
     cause_msg |-> s.msg, ended |-> TRUE]

\* a plausible slip: the check for a missing factory key is left out
pg_call_unchecked(ad) ==
    /\ gpc = "idle"
    /\ classad' = ad
    /\ fs0' = fs
    /\ st' = NoSt
    /\ result' = NoResult
    /\ gpc' = "validate"
    /\ rerun' = (result.ended /\ ad = classad)
    /\ UNCHANGED <<fs, PubKeyObj, storeVars>>

\* lines 532-536: process_global is called with a ClassAd; without a factory
\* public key it raises at once
pg_call(ad) ==
    /\ gpc = "idle"
    /\ classad' = ad
    /\ fs0' = fs
    /\ st' = NoSt
    /\ IF PubKeyObj = "None"
       THEN /\ result' = Outcome(NoSt, "CredentialError",
                                 "Factory has no public key.  We cannot decrypt.")
            /\ gpc' = "idle"
       ELSE /\ result' = NoResult
            /\ gpc' = "validate"
    /\ rerun' = (result.ended /\ ad = classad)
    /\ UNCHANGED <<fs, PubKeyObj, storeVars>>

\* a plausible slip: a failure of validate_frontend is swallowed and the loop
\* goes on with the key and the security name the ClassAd carries
pg_validate_swallowed ==
    /\ gpc = "validate"
    /\ LET vf == validate_frontend(classad, FrontendDescript, PubKeyObj)
           k == get_key_obj(PubKeyObj, classad)
           sn == decrypt_field(k.sym_key_obj, classad, "GlideinEncParamSecurityName")
       IN  st' = [st EXCEPT !.trace = IF vf.raised = "None"
                                      THEN vf.trace \o <<"validated">> ELSE vf.trace,
                            !.validated = vf.raised = "None",
                            !.sym_key_obj = k.sym_key_obj,
                            !.frontend_sec_name = IF sn.raised = "None" THEN sn.v
                                                  ELSE Str(""),
                            !.mkeys = classad.mkeys]
    /\ gpc' = "loop"
    /\ UNCHANGED <<fs, PubKeyObj, classad, fs0, result, rerun, storeVars>>

\* lines 540-547: validate_frontend, then the keys of the embedded credentials
pg_validate ==
    /\ gpc = "validate"
    /\ LET vf == validate_frontend(classad, FrontendDescript, PubKeyObj) IN
         st' = [st EXCEPT !.raised = vf.raised, !.msg = vf.msg,
                          !.trace = IF vf.raised = "None"
                                    THEN vf.trace \o <<"validated">> ELSE vf.trace,
                          !.validated = vf.raised = "None",
                          !.sym_key_obj = vf.sym_key_obj,
                          !.frontend_sec_name = vf.frontend_sec_name,
                          !.mkeys = classad.mkeys]
    /\ gpc' = "loop"
    /\ UNCHANGED <<fs, PubKeyObj, classad, fs0, result, rerun, storeVars>>

\* lines 548-569: one turn of the loop
pg_key(rmOk) ==
    /\ gpc = "loop"
    /\ st.raised = "None"
    /\ st.mkeys # <<>>
    /\ LET r == process_key(fs, st, classad, FrontendDescript, Head(st.mkeys), rmOk) IN
         /\ fs' = r.fs
         /\ st' = [r.st EXCEPT !.mkeys = Tail(st.mkeys)]
    /\ UNCHANGED <<gpc, PubKeyObj, classad, fs0, result, rerun, storeVars>>

\* the loop is over: process_global returns None
pg_return ==
    /\ gpc = "loop"
    /\ st.raised = "None"
    /\ st.mkeys = <<>>
    /\ result' = Outcome(st, "None", "")
    /\ gpc' = "idle"
    /\ UNCHANGED <<fs, PubKeyObj, classad, fs0, st, rerun, storeVars>>

\* lines 570-574: an exception of the try body reaches the except clause
pg_except ==
    /\ gpc = "loop"
    /\ st.raised # "None"
    /\ result' = Outcome(st, reraise(st).raised, reraise(st).msg)
    /\ gpc' = "idle"
    /\ UNCHANGED <<fs, PubKeyObj, classad, fs0, st, rerun, storeVars>>

Next ==
    \/ \E ad \in ClassAds : pg_call(ad) /\ UNCHANGED <<libVars, writers>>
    \/ pg_validate /\ UNCHANGED <<libVars, writers>>
    \/ \E rmOk \in BOOLEAN : pg_key(rmOk) /\ UNCHANGED <<libVars, writers>>
    \/ pg_return /\ UNCHANGED <<libVars, writers>>
    \/ pg_except /\ UNCHANGED <<libVars, writers>>

Spec == Init /\ [][Next]_vars

-----------------------------------------------------------------------------
(* The store as a state machine: one writer calling safe_update, one reader *)

\* no ClassAd is being processed
GlobalIdle ==
    /\ PubKeyObj = "None"
    /\ classad = NoAd
    /\ fs0 = EmptyFs
    /\ gpc = "idle"
    /\ st = NoSt
    /\ result = NoResult
    /\ rerun = FALSE

StoreInit ==
    /\ fs \in StoreInitFs
    /\ pc = "idle"
    /\ call = NoCall
    /\ hist = <<>>
    /\ obs = NoObs
    /\ GlobalIdle
    /\ LibIdle
    /\ TwoIdle

StoreNext ==
    \/ \E fname \in StorePaths, d \in StoreData : su_call(fname, d) /\ UNCHANGED <<globalVars, libVars, writers>>
    \/ su_isfile /\ UNCHANGED <<globalVars, libVars, writers>>
    \/ su_create /\ UNCHANGED <<globalVars, libVars, writers>>
    \/ su_with /\ UNCHANGED <<globalVars, libVars, writers>>
    \/ su_read_old /\ UNCHANGED <<globalVars, libVars, writers>>
    \/ su_compare /\ UNCHANGED <<globalVars, libVars, writers>>
    \/ \E ok \in BOOLEAN : su_remove_old(ok) /\ UNCHANGED <<globalVars, libVars, writers>>
    \/ su_open_new /\ UNCHANGED <<globalVars, libVars, writers>>
    \/ su_interrupt /\ UNCHANGED <<globalVars, libVars, writers>>
    \/ \E p \in StorePaths : reader_read(p) /\ UNCHANGED <<globalVars, libVars, writers>>

SpecStore == StoreInit /\ [][StoreNext]_vars

\* two processes call safe_update once each, their steps in any order
TwoInit ==
    /\ fs \in TwoInitFs
    /\ StoreIdle
    /\ GlobalIdle
    /\ LibIdle
    /\ TwoIdle

twoRest == <<storeVars, globalVars, libVars>>

TwoNext ==
    \E w \in Writers :
        \/ \E fname \in StorePaths, d \in StoreData : tw_call(w, fname, d) /\ UNCHANGED twoRest
        \/ tw_isfile(w) /\ UNCHANGED twoRest
        \/ tw_create(w) /\ UNCHANGED twoRest
        \/ tw_with(w) /\ UNCHANGED twoRest
        \/ tw_read_old(w) /\ UNCHANGED twoRest
        \/ tw_compare(w) /\ UNCHANGED twoRest
        \/ \E ok \in BOOLEAN : tw_remove_old(w, ok) /\ UNCHANGED twoRest
        \/ tw_open_new(w) /\ UNCHANGED twoRest

SpecTwo == TwoInit /\ [][TwoNext]_vars

-----------------------------------------------------------------------------
(* The other functions of the module as state machines, one for each *)

\* no file, no safe_update call, no ClassAd
CoreIdle ==
    /\ fs = EmptyFs
    /\ StoreIdle
    /\ GlobalIdle
    /\ TwoIdle

coreVars == <<fs, storeVars, globalVars, writers>>

\* compress_credential called again and again while time passes
CompressInit == CoreIdle /\ LibIdle

CompressNext ==
    \/ tick /\ UNCHANGED <<coreVars, checked, submit, created, plugins, generated>>
    \/ \E d \in CompressInputs :
          cc_call(d) /\ UNCHANGED <<coreVars, checked, submit, created, plugins, generated>>

SpecCompress == CompressInit /\ [][CompressNext]_vars

\* check_security_credentials called on a request
ValidatorInit == CoreIdle /\ LibIdle

ValidatorNext ==
    csc_call /\ UNCHANGED <<coreVars, now, compressed, submit, created, plugins, generated>>

SpecValidator == ValidatorInit /\ [][ValidatorNext]_vars

\* create_cred called
CreateInit == CoreIdle /\ LibIdle

CreateNext ==
    cred_call /\ UNCHANGED <<coreVars, now, compressed, checked, submit, plugins, generated>>

SpecCreate == CreateInit /\ [][CreateNext]_vars

\* the accessors of a new SubmitCredentials object called one after another
SubmitInit ==
    /\ CoreIdle
    /\ CompressIdle /\ ValidatorIdle /\ CreateIdle /\ GenerateIdle
    /\ \E cred_dir \in {<<>>, <<"dir">>} :
          submit = [NoSubmit EXCEPT !.object = NewSubmitCredentials(cred_dir),
                                    !.before = NewSubmitCredentials(cred_dir)]

SubmitNext ==
    \/ \E cred_type \in SubmitTypes, filename \in FileNames, prefix \in Prefixes :
          /\ sc_add_security(cred_type, filename, prefix)
          /\ UNCHANGED <<coreVars, now, compressed, checked, created, plugins, generated>>
    \/ \E cred_type \in SubmitTypes, absfname \in AbsNames :
          /\ sc_add_factory(cred_type, absfname)
          /\ UNCHANGED <<coreVars, now, compressed, checked, created, plugins, generated>>
    \/ \E cred_type \in SubmitTypes, cred_str \in IdentityValues :
          /\ sc_add_identity(cred_type, cred_str)
          /\ UNCHANGED <<coreVars, now, compressed, checked, created, plugins, generated>>

SpecSubmit == SubmitInit /\ [][SubmitNext]_vars

\* generate_credential called, with no plugin or every loadable plugin
\* imported by earlier calls
GenerateInit ==
    /\ CoreIdle
    /\ CompressIdle /\ ValidatorIdle /\ CreateIdle /\ SubmitIdle
    /\ plugins \in {{}, Loadable}
    /\ generated = NoGenerated

GenerateNext ==
    gen_call /\ UNCHANGED <<coreVars, now, compressed, checked, submit, created>>

SpecGenerate == GenerateInit /\ [][GenerateNext]_vars

-----------------------------------------------------------------------------
(* Claims about process_global and validate_frontend, under Spec *)

\* a process_global call has ended and no other has begun
Ended == gpc = "idle" /\ result.ended

\* validate_frontend has just returned or raised: no turn of the loop has run
JustValidated == gpc = "loop" /\ st.mkeys = classad.mkeys /\ st.updated = <<>>
                              /\ st.skipped = <<>> /\ st.raised \in {"None", "CredentialError"}
                              /\ (st.raised = "None") = st.validated

\* the four conditions of authentication, read off the ClassAd and the policy
KeyExtracted(ad) == "ReqEncKeyCode" \in DOMAIN ad /\ ad.ReqEncKeyCode # "bad"

IdentityMatches(ad) ==
    /\ "ReqEncIdentity" \in DOMAIN ad
    /\ ad.ReqEncIdentity.key = ad.ReqEncKeyCode
    /\ ad.ReqEncIdentity.plain = ad.AuthenticatedIdentity.v

SecurityNameKnown(ad) ==
    /\ "GlideinEncParamSecurityName" \in DOMAIN ad
    /\ ad.GlideinEncParamSecurityName.key = ad.ReqEncKeyCode
    /\ ad.GlideinEncParamSecurityName.plain \in DOMAIN FrontendDescript.identity

ExpectedIdentityMatches(ad) ==
    FrontendDescript.identity[ad.GlideinEncParamSecurityName.plain]
        = ad.AuthenticatedIdentity.v

Authentic(ad) ==
    /\ KeyExtracted(ad)
    /\ IdentityMatches(ad)
    /\ SecurityNameKnown(ad)
    /\ ExpectedIdentityMatches(ad)

\* the embedded credential i of ad can be decrypted with the ClassAd's key
Decryptable(ad, i) ==
    /\ i \in DOMAIN ad.GlideinEncParam
    /\ ad.GlideinEncParam[i].key = ad.ReqEncKeyCode
    /\ ad.GlideinEncParamSecurityClass[i].key = ad.ReqEncKeyCode

\* the policy maps the security class of the embedded credential i to a user
HasMapping(ad, i) ==
    /\ ad.GlideinEncParamSecurityName.plain \in DOMAIN FrontendDescript.username
    /\ ad.GlideinEncParamSecurityClass[i].plain
         \in DOMAIN FrontendDescript.username[ad.GlideinEncParamSecurityName.plain]

MappedUser(ad, i) ==
    FrontendDescript.username[ad.GlideinEncParamSecurityName.plain]
                             [ad.GlideinEncParamSecurityClass[i].plain]

\* the files, of any name, that exist in f
Existing(f) == {p \in Paths : f[p].exists}

\* C1: no file is created or changed before validate_frontend has succeeded
\* for the ClassAd being processed (in the state and in the order of the
\* steps), and a ClassAd that fails authentication leaves every file as it
\* was and gives its caller exactly one CredentialError.
C1_NoWriteBeforeAuth ==
    /\ fs # fs0 => st.validated /\ Authentic(classad)
    /\ \A i \in 1..Len(st.trace) :
          st.trace[i] = "update_credential_file"
              => \E j \in 1..(i - 1) : st.trace[j] = "validated"
    /\ (Ended /\ ~Authentic(classad))
          => /\ fs = fs0
             /\ result.raised = "CredentialError"
             /\ result.updated = <<>>

\* C1 witness: a ClassAd that carries a mapped credential failed
\* authentication, after an authenticated ClassAd had files created
C1_Witness ==
    /\ Ended
    /\ PubKeyObj # "None"
    /\ ~Authentic(classad)
    /\ classad.mkeys # <<>>
    /\ Existing(fs) # {}
    /\ fs \notin InitFs
    /\ fs = fs0

\* C2: validate_frontend returns (symmetric key, security name) exactly when
\* the key was extracted from ReqEncKeyCode, the decrypted ReqEncIdentity
\* equals AuthenticatedIdentity, the decrypted security name is known to the
\* policy and its expected identity equals AuthenticatedIdentity; otherwise
\* it raises CredentialError and returns no key.
C2_ValidateFrontend ==
    JustValidated =>
        /\ st.validated <=> Authentic(classad)
        /\ st.validated
             => /\ st.sym_key_obj = classad.ReqEncKeyCode
                /\ st.frontend_sec_name = Str(classad.GlideinEncParamSecurityName.plain)
        /\ ~st.validated
             => /\ st.raised = "CredentialError"
                /\ st.sym_key_obj = NoKey

\* C2 witness: validate_frontend returned the pair for an authentic ClassAd
C2_Witness ==
    /\ JustValidated
    /\ st.validated
    /\ st.sym_key_obj = "k1"
    /\ classad.mkeys # <<>>

\* C4 as stated: a process_global call that ends with an error leaves the
\* persisted state as it was before the call.
C4_AllOrNothing ==
    (Ended /\ result.raised # "None") => fs = fs0

\* C5 as stated: for an authenticated ClassAd whose credentials can all be
\* decrypted and that carries an id with a username mapping and an id
\* without one, the id without a mapping is skipped, the id with a mapping
\* has its raw and compressed file persisted, and the call succeeds.
C5_SkipUnmapped ==
    (/\ Ended
     /\ result.validated
     /\ Authentic(classad)
     /\ \A i \in Ids(classad.mkeys) : Decryptable(classad, i)
     /\ \E i \in Ids(classad.mkeys) : HasMapping(classad, i)
     /\ \E i \in Ids(classad.mkeys) : ~HasMapping(classad, i))
        => /\ result.raised = "None"
           /\ \A i \in Ids(classad.mkeys) :
                IF HasMapping(classad, i)
                THEN LET fname == Fname(MappedUser(classad, i), classad.ClientName, i) IN
                       /\ fs[fname].exists
                       /\ fs[FnameCompressed(fname)].exists
                ELSE \E n \in 1..Len(result.skipped) : result.skipped[n] = i

\* C6: without a factory public key process_global raises CredentialError
\* before any key extraction, decryption, policy lookup or file write.
C6_NoPublicKey ==
    PubKeyObj = "None"
        => /\ gpc = "idle"
           /\ fs = fs0
           /\ st.trace = <<>>
           /\ result.ended
                => /\ result.raised = "CredentialError"
                   /\ result.msg = "Factory has no public key.  We cannot decrypt."
                   /\ result.trace = <<>>

\* C6 witness: a ClassAd with an embedded credential arrived at a factory
\* that has no public key
C6_Witness ==
    /\ PubKeyObj = "None"
    /\ Ended
    /\ Authentic(classad)
    /\ classad.mkeys # <<>>

\* C7 as stated: when authentication fails, the caller of process_global gets
\* the error validate_frontend raised, same kind and same message.
C7_Unchanged ==
    (Ended /\ PubKeyObj # "None" /\ ~result.validated)
        => /\ result.raised = result.cause
           /\ result.msg = result.cause_msg

\* C7 as amended: when authentication fails, the caller of process_global
\* gets a CredentialError, the kind validate_frontend raised, but with the
\* one message of process_global's except clause in place of the message of
\* validate_frontend.
C7_Replaced ==
    (Ended /\ PubKeyObj # "None" /\ ~result.validated)
        => /\ result.cause = "CredentialError"
           /\ result.raised = "CredentialError"
           /\ result.msg = "Error occurred processing the globals classads."
           /\ result.cause_msg # result.msg

\* C7 witness: a ClassAd whose ReqEncIdentity differs from its
\* AuthenticatedIdentity was rejected
C7_Witness ==
    /\ Ended
    /\ PubKeyObj # "None"
    /\ ~result.validated
    /\ result.cause_msg = "Client provided invalid ReqEncIdentity"

\* C10 as stated: a ClassAd with exactly one embedded credential id, mapped to
\* user u1, processed on an empty credential directory leaves exactly two
\* files, the raw file with the decrypted bytes and the compressed file
\* beginning with "glidein_credentials=", and update_credential_file returns
\* these two paths.
C10_OnePair ==
    (/\ Ended
     /\ result.validated
     /\ Authentic(classad)
     /\ Len(classad.mkeys) = 1
     /\ Decryptable(classad, classad.mkeys[1])
     /\ HasMapping(classad, classad.mkeys[1])
     /\ fs0 = EmptyFs)
        => LET fname == Fname("u1", classad.ClientName, classad.mkeys[1]) IN
             /\ Existing(fs) = {fname, FnameCompressed(fname)}
             /\ fs[fname] = File(classad.GlideinEncParam[classad.mkeys[1]].plain)
             /\ Len(fs[FnameCompressed(fname)].content) > 0
             /\ fs[FnameCompressed(fname)].content[1] = "glidein_credentials="
             /\ result.updated = <<fname, FnameCompressed(fname)>>

-----------------------------------------------------------------------------
(* Claims about safe_update, under SpecStore *)

\* two calls in a row, hist[i-1] then hist[i], on the same path, both run to
\* their end (neither was interrupted)
Consecutive(i) ==
    /\ i \in 2..Len(hist)
    /\ hist[i].fname = hist[i-1].fname
    /\ hist[i].outcome # "interrupted"
    /\ hist[i-1].outcome # "interrupted"

\* C3 as stated: a reader of a path that a safe_update is working on, or was
\* interrupted on, sees the complete previous content or the complete new
\* content, also when the path is being created for the first time (where
\* the previous state is "no file").
C3_NoTornRead_Stated ==
    (obs.during.active /\ obs.during.state \notin {"None", "TypeError"})
        => obs.seen \in {obs.during.before, File(obs.during.data.v)}

\* C3 as amended: when the path already exists at the start of the call, a
\* reader of the path sees the complete previous content or the complete new
\* content, at every step of the call and after it ended in any way.
C3_NoTornRead_Existing ==
    (obs.during.active /\ obs.during.before.exists)
        => obs.seen \in {obs.during.before, File(obs.during.data.v)}

\* C3 witness: the reader read an existing file while a differing update had
\* opened its ".new" sibling and was still in progress
C3_Witness ==
    /\ obs.during.active
    /\ obs.during.before.exists
    /\ obs.during.state = "with"
    /\ obs.during.data.v # obs.during.before.content
    /\ fs[NewName(obs.path)].exists
    /\ obs.seen = obs.during.before

\* C8 as stated: safe_update(path, X) and then safe_update(path, X) again
\* leaves the file equal to X, and the second call changes nothing in the
\* file system (no write, no ".old" or ".new" sibling created).
C8_Idempotent ==
    \A i \in 1..Len(hist) :
        (Consecutive(i) /\ hist[i].data = hist[i-1].data)
            => /\ hist[i].after[hist[i].fname] = File(hist[i].data.v)
               /\ hist[i].after = hist[i].before

\* C9 as stated: after safe_update(path, X) and then safe_update(path, Y) with
\* X # Y the path holds exactly Y, ".old" holds exactly X if it exists, and no
\* ".new" is left.
C9_Update ==
    \A i \in 1..Len(hist) :
        (Consecutive(i) /\ hist[i].data.v # hist[i-1].data.v)
            => /\ hist[i].after[hist[i].fname] = File(hist[i].data.v)
               /\ hist[i].after[OldName(hist[i].fname)].exists
                    => hist[i].after[OldName(hist[i].fname)] = File(hist[i-1].data.v)
               /\ ~hist[i].after[NewName(hist[i].fname)].exists

-----------------------------------------------------------------------------
(* Claims about the whole pipeline run twice, under Spec *)

\* C11 as stated: when process_global is run again on the ClassAd of the
\* call before it, with the same policy, the second run leaves the files and
\* their contents as the first run left them: it rewrites no file and creates
\* no ".old" or ".new" sibling, of the raw file or of the compressed file.
C11_RerunIdempotent ==
    (Ended /\ rerun) => fs = fs0

-----------------------------------------------------------------------------
(* Claims about compress_credential, under SpecCompress *)

\* C12 as stated: every call of compress_credential returns an encoded
\* output, and two calls on the same byte string return the same output,
\* whenever they are made and whatever was called before.
C12_Deterministic ==
    \A i, j \in 1..Len(compressed) :
        compressed[i].data = compressed[j].data
            => /\ compressed[i].out.raised = "None"
               /\ compressed[j].out.raised = "None"
               /\ compressed[i].out.v = compressed[j].out.v

-----------------------------------------------------------------------------
(* Claims about check_security_credentials, under SpecValidator *)

\* the method is one of the '+'-separated entries of the declared auth method
Declared(method) == in_list(method, split(checked.auth_method))

CheckAccepted == checked.out.raised = "None"
CheckRejected == checked.out.raised = "CredentialError"

\* the credential-relevant fields
RelevantFields ==
    {"SubmitProxy", "GlideinProxy", "Username", "Password", "PublicCert", "PrivateCert",
     "PublicKey", "PrivateKey", "VMId", "VMType", "AuthFile"}

\* the scitoken cases: scitoken is declared, or passthrough is enabled and
\* the parameter set holds the scitoken-flagged credential
ScitokenCase ==
    \/ Declared("scitoken")
    \/ checked.scitoken_passthru /\ "frontend_scitoken" \in checked.params

\* C13: with grid_proxy declared, scitoken not declared and passthrough
\* disabled, a parameter set is accepted exactly when it holds SubmitProxy
\* and no other credential-relevant field; every other set is rejected with
\* CredentialError.
C13_GridProxy ==
    (/\ checked.done
     /\ Declared("grid_proxy")
     /\ ~Declared("scitoken")
     /\ ~checked.scitoken_passthru)
        => /\ CheckAccepted
                <=> /\ "SubmitProxy" \in checked.params
                    /\ checked.params \cap (RelevantFields \ {"SubmitProxy"}) = {}
           /\ ~CheckAccepted => CheckRejected

\* C13 witness: {SubmitProxy, Username} was rejected for grid_proxy
C13_Witness ==
    /\ checked.done
    /\ checked.auth_method = <<"grid_proxy">>
    /\ ~checked.scitoken_passthru
    /\ checked.params = {"SubmitProxy", "Username"}
    /\ CheckRejected

\* C14 as stated: with grid_proxy declared and outside the scitoken cases, a
\* parameter set without SubmitProxy is rejected with CredentialError,
\* passthrough enabled or not.
C14_ProxyRequired ==
    (/\ checked.done
     /\ Declared("grid_proxy")
     /\ ~ScitokenCase
     /\ "SubmitProxy" \notin checked.params)
        => CheckRejected

\* C14 as amended: with grid_proxy declared and outside the scitoken cases,
\* a parameter set without SubmitProxy is rejected with CredentialError when
\* passthrough is disabled; when passthrough is enabled every parameter set
\* is accepted, with or without SubmitProxy.
C14_ProxyRequiredWithoutPassthrough ==
    (/\ checked.done
     /\ Declared("grid_proxy")
     /\ ~ScitokenCase)
        => IF checked.scitoken_passthru
           THEN CheckAccepted
           ELSE "SubmitProxy" \notin checked.params => CheckRejected

\* C14 witness: with passthrough enabled, a set without SubmitProxy and
\* without the scitoken mark was accepted for grid_proxy
C14_Witness ==
    /\ checked.done
    /\ checked.auth_method = <<"grid_proxy">>
    /\ checked.scitoken_passthru
    /\ checked.params = {"Username", "Password"}
    /\ CheckAccepted

\* the non-proxy sub-methods, in the order the validator looks for them
SubMethods == <<"cert_pair", "key_pair", "auth_file", "username_password">>

\* a non-proxy method is declared, and neither grid_proxy nor scitoken
NonProxyDeclared ==
    /\ ~Declared("grid_proxy")
    /\ ~Declared("scitoken")
    /\ \E i \in 1..Len(SubMethods) : Declared(SubMethods[i])

\* the declared sub-method; of several, the first in the validator's order
DeclaredSubMethod ==
    SubMethods[CHOOSE i \in 1..Len(SubMethods) :
                   /\ Declared(SubMethods[i])
                   /\ \A j \in 1..(i - 1) : ~Declared(SubMethods[j])]

RequiredFields(method) ==
    IF method = "cert_pair" THEN {"PublicCert", "PrivateCert"}
    ELSE IF method = "key_pair" THEN {"PublicKey", "PrivateKey"}
    ELSE IF method = "auth_file" THEN {"AuthFile"}
    ELSE {"Username", "Password"}

\* the allow-list of a sub-method: its required fields, the glidein proxy
\* and the cloud fields
AllowedFields(method) == RequiredFields(method) \cup {"GlideinProxy", "VMId", "VMType"}

\* the three conditions of a non-proxy method
NonProxyContract ==
    /\ "GlideinProxy" \in checked.params \/ checked.scitoken_passthru
    /\ RequiredFields(DeclaredSubMethod) \subseteq checked.params
    /\ checked.params \cap (RelevantFields \ AllowedFields(DeclaredSubMethod)) = {}

\* C15 as stated: for a declared non-proxy method, without grid_proxy or
\* scitoken, a parameter set is accepted exactly when GlideinProxy is present
\* or passthrough is enabled, every required field of the declared sub-method
\* is present, and no credential-relevant field outside its allow-list is
\* present.
C15_NonProxy ==
    (checked.done /\ NonProxyDeclared)
        => /\ CheckAccepted <=> NonProxyContract
           /\ ~CheckAccepted => CheckRejected

\* C15 as amended: the same, outside the scitoken cases (with passthrough
\* enabled, a set holding the scitoken-flagged credential is accepted
\* whatever else it holds); of several declared sub-methods the one
\* enforced is the first of cert_pair, key_pair, auth_file,
\* username_password.
C15_NonProxyOutsideScitoken ==
    (checked.done /\ NonProxyDeclared /\ ~ScitokenCase)
        => /\ CheckAccepted <=> NonProxyContract
           /\ ~CheckAccepted => CheckRejected

\* C15 witness: {PublicCert, PrivateCert} without GlideinProxy was rejected
\* for cert_pair with passthrough disabled
C15_Witness ==
    /\ checked.done
    /\ checked.auth_method = <<"cert_pair">>
    /\ ~checked.scitoken_passthru
    /\ checked.params = {"PublicCert", "PrivateCert"}
    /\ CheckRejected

\* the validator accepts every parameter set of a case: a declared method, a
\* passthrough value, and the scitoken-flagged credential present or not
AcceptsAll(auth_method, scitoken_passthru, flagged) ==
    \A params \in ParamSets :
        ("frontend_scitoken" \in params) = flagged
            => check_security_credentials(auth_method, params, scitoken_passthru).raised
                   = "None"

\* every case, with whether the validator accepts all its parameter sets
UnconditionalCases ==
    {<<c, AcceptsAll(c[1], c[2], c[3])>> : c \in AuthMethods \X BOOLEAN \X BOOLEAN}

\* the case of the latest call is accepted whatever fields the set holds
Unconditional ==
    <<<<checked.auth_method, checked.scitoken_passthru,
        "frontend_scitoken" \in checked.params>>, TRUE>> \in UnconditionalCases

\* C16 as stated: for a declared method with a supported entry, acceptance
\* is unconditional exactly in the scitoken cases; passthrough without the
\* scitoken-flagged credential, or that credential without passthrough, does
\* not give it.
C16_ScitokenOnly ==
    (checked.done /\ supported(split(checked.auth_method)))
        => (Unconditional <=> ScitokenCase)

\* C16 as amended: for a declared method with a supported entry, acceptance
\* is unconditional exactly when scitoken is declared, or passthrough is
\* enabled and the set holds the scitoken-flagged credential, or grid_proxy
\* is declared and passthrough is enabled.
C16_ScitokenOrProxyPassthrough ==
    (checked.done /\ supported(split(checked.auth_method)))
        => (Unconditional
                <=> ScitokenCase \/ (Declared("grid_proxy") /\ checked.scitoken_passthru))

\* C16 witness: with passthrough enabled, a set holding the scitoken-flagged
\* credential and a lone Username was accepted for cert_pair
C16_Witness ==
    /\ checked.done
    /\ checked.auth_method = <<"cert_pair">>
    /\ checked.scitoken_passthru
    /\ checked.params = {"frontend_scitoken", "Username"}
    /\ CheckAccepted
    /\ Unconditional

\* C17: when no entry of the declared auth method is a supported method, the
\* validator returns without error, for every parameter set and either
\* passthrough value.
C17_UnrecognizedPermitted ==
    (/\ checked.done
     /\ \A m \in SUPPORTED_AUTH_METHODS : ~Declared(m))
        => CheckAccepted

\* C17 witness: "unknown+other" was permitted with a parameter set that no
\* supported method would take
C17_Witness ==
    /\ checked.done
    /\ checked.auth_method = <<"unknown", "+", "other">>
    /\ ~checked.scitoken_passthru
    /\ checked.params = {"Username", "PrivateKey"}
    /\ CheckAccepted

-----------------------------------------------------------------------------
(* Claims about SubmitCredentials, under SpecSubmit *)

\* the map an accessor records in
MapOf(object, fn) ==
    IF fn = "add_identity_credential" THEN object.identity_credentials
    ELSE object.security_credentials

\* C18 as stated: no accessor of SubmitCredentials throws; each returns True
\* with the entry recorded in its map, or returns False with both maps as
\* they were.
C18_NeverThrows ==
    submit.calls > 0
        => /\ submit.last.raised = "None"
           /\ submit.last.ret \in {"True", "False"}
           /\ submit.last.ret = "True"
                => submit.last.cred_type \in DOMAIN MapOf(submit.object, submit.last.fn)
           /\ submit.last.ret = "False" => submit.object = submit.before

-----------------------------------------------------------------------------
(* Claims about create_cred, under SpecCreate *)

\* the supported credential kinds
Kinds == {"scitoken", "grid_proxy", "cert_pair", "key_pair", "username_password",
          "auth_file"}

\* the fields of a well-formed credential of a kind
KindFields(kind) ==
    {"sec_class", "trust_dom", "vm_id", "vm_type", "pilot_proxy", "creation_script",
     "update_freq"}
    \cup (IF kind \in {"scitoken", "grid_proxy"} THEN {"cred_loc"}
          ELSE IF kind = "cert_pair" THEN {"cert", "certkey"}
          ELSE IF kind = "key_pair" THEN {"pub_key", "priv_key", "rem_user"}
          ELSE IF kind = "username_password" THEN {"username", "password"}
          ELSE {"file", "rem_user"})

\* C19: create_cred(K, well-formed fields) returns a credential whose
\* cred_type and get_cred_type() are K, for every supported kind K; with an
\* unrecognized kind, or with a field missing or a field too many, it fails
\* with CredentialError and builds nothing.
C19_CreateCred ==
    created.done
        => IF created.cred_type \in Kinds /\ created.krx = KindFields(created.cred_type)
           THEN /\ created.out.raised = "None"
                /\ created.out.cred.t = "Credential"
                /\ created.out.cred.cred_type = created.cred_type
                /\ created.out.cred.get_cred_type = created.cred_type
           ELSE /\ created.out.raised = "CredentialError"
                /\ created.out.cred = NoCred
                /\ created.cred_type \notin Kinds
                     => created.out.msg = "Unknown Credential type"

\* C19 witness: create_cred built an auth_file credential from the fields of
\* auth_file
C19_Witness ==
    /\ created.done
    /\ created.cred_type = "auth_file"
    /\ created.krx = KindFields("auth_file")
    /\ created.out.raised = "None"
    /\ created.out.cred.class = "auth_file"

-----------------------------------------------------------------------------
(* Claims about generate_credential, under SpecGenerate *)

\* the generators and the trust domains the call works with
GeneratorsOf(g) == eval(element_or_frontend(g.elementDescript, "CredentialGenerators").text)
TrustDomainsOf(g) == eval(element_or_frontend(g.elementDescript, "ProxyTrustDomains").text)

\* a plugin configured for the trust domain of the call gives the token
SomePluginYields(g, token) ==
    \E cfname \in DOMAIN GeneratorsOf(g).map :
        /\ cfname \in DOMAIN TrustDomainsOf(g).map
        /\ TrustDomainsOf(g).map[cfname] = g.trust_domain
        /\ get_credential(GeneratorsOf(g).map[cfname]).raised = "None"
        /\ get_credential(GeneratorsOf(g).map[cfname]).stkn = token

\* C20 as stated: for every configuration of generators and trust domains
\* no exception leaves generate_credential, and its result is None unless a
\* plugin configured for the trust domain gives a token, which is then the
\* result.
C20_NoFailureEscapes ==
    generated.done
        => /\ generated.out.raised = "None"
           /\ ~IsNone(generated.out.v) => SomePluginYields(generated, generated.out.v)

-----------------------------------------------------------------------------
(* More claims about check_security_credentials, under SpecValidator *)

\* the message of the final else of lines 714-716
Inconsistency == "Inconsistency between SUPPORTED_AUTH_METHODS and check_security_credentials"

\* C24 as stated: for every declared auth method with at least one entry of
\* SUPPORTED_AUTH_METHODS, every parameter set and either passthrough value,
\* the validator accepts or raises the contract violation of a sub-method; it
\* never ends in the "Inconsistency between SUPPORTED_AUTH_METHODS and
\* check_security_credentials" branch.
C24_NoInconsistency ==
    (checked.done /\ supported(split(checked.auth_method)))
        => checked.out.msg # Inconsistency

-----------------------------------------------------------------------------
(* More claims about safe_update, under SpecStore *)

\* C23 as stated: when a safe_update on a path was interrupted at any step
\* and a later safe_update(path, Y) on the same path runs to its end, the
\* path holds exactly Y afterwards.
C23_RetrySafe ==
    \A i \in 2..Len(hist) :
        (/\ hist[i].fname = hist[i-1].fname
         /\ hist[i-1].outcome = "interrupted"
         /\ hist[i].outcome # "interrupted")
            => hist[i].after[hist[i].fname] = File(hist[i].data.v)

-----------------------------------------------------------------------------
(* Claims about two safe_update calls at the same time, under SpecTwo *)

\* both calls ran to their end
TwoEnded == \A w \in Writers : writers[w].pc = "done"

\* the two calls are on the same path
SamePath == writers["w1"].fname = writers["w2"].fname

\* C21 as stated: two safe_update calls on distinct paths, their steps in any
\* order, leave each path with exactly the content its own writer supplied.
C21_DistinctPathsSafe ==
    (TwoEnded /\ ~SamePath)
        => \A w \in Writers : fs[writers[w].fname] = File(writers[w].data.v)

\* the contents Y and Z the two writers supply
Supplied == {writers[w].data.v : w \in Writers}

\* the two calls are on the same path, which existed when each of them
\* started with a content that is neither Y nor Z, and Y differs from Z
SameExistingPath ==
    /\ SamePath
    /\ writers["w1"].data.v # writers["w2"].data.v
    /\ \A w \in Writers :
        /\ writers[w].before.exists
        /\ writers[w].before.content \notin Supplied

====
